---- MODULE Spec2Model ----
(***************************************************************************)
(* School report portal: the data-access layer of utils.py (aggregation of *)
(* a learner report, the broadsheet pivot, the roster listings) and the    *)
(* route handlers of app.py / export_word.py that turn a missing learner   *)
(* into a 404.                                                             *)
(*                                                                         *)
(* The store (learners, subjects, grade_subjects, scores) is read-only: it *)
(* is chosen in Init and never changes.  Every call of a utils function is *)
(* one action; it records what the call returned (or raised) in `result`,  *)
(* the HTTP answer of a route handler in `response`, and the connections   *)
(* it opened in `conns`.                                                   *)
(*                                                                         *)
(* Representation                                                          *)
(*   - SQL NULL / Python None in a numeric column is the integer NULL;     *)
(*     None as a string argument is the string None.                       *)
(*   - a value rounded to one decimal (round(x, 1)) is kept in TENTHS:     *)
(*     65.0 is 650, 57.2 is 572.                                           *)
(*   - scores are integers in 0..100.                                      *)
(*   - strings are compared through StrRank (the binary collation of       *)
(*     SQLite restricted to the names of the model).                       *)
(***************************************************************************)
EXTENDS Integers, Sequences, FiniteSets, TLC

VARIABLES learners, subjects, grade_subjects, scores, conns, call, result, response

vars == <<learners, subjects, grade_subjects, scores, conns, call, result, response>>
store == <<learners, subjects, grade_subjects, scores>>

(* ------------------------------ bounds -------------------------------- *)

\* rows of the scores table
MaxRows == 2
\* rows of the scores table where the class statistics are checked
MaxClassRows == 3
\* connections a run may open
MaxConns == 2

(* --------------------------- value domains ---------------------------- *)

NULL == -1
None == "<None>"

Grades == {"G1", "G2"}
Terms == {"T1", "T2"}
ExamTypes == {"Opener", "Midterm"}
SubjectIds == {1, 2}
\* the learners that have rows in the scores table
ScoredLearners == {1, 3}

\* arguments of the calls: an id with no learner row (4), the absent filter,
\* the empty string a form field sends, and a grade with no learner (G3)
IdArgs == ScoredLearners \cup {4}
TermArgs == {None, "", "T2"}
ExamArgs == {None, "Midterm"}
GradeArgs == {None, "G2"}
BroadsheetGrades == Grades \cup {"G3"}

\* Python truthiness of an optional string argument: `if term:`
Truthy(v) == v # None /\ v # ""

\* binary collation on the strings of the model
StrRank(s) ==
    CASE s = "Amy" -> 1
      [] s = "English" -> 2
      [] s = "G1" -> 3
      [] s = "G2" -> 4
      [] s = "G3" -> 5
      [] s = "Math" -> 6
      [] s = "T1" -> 7
      [] s = "T2" -> 8
      [] s = "Zed" -> 9
      [] OTHER -> 0

(* ------------------------------ helpers ------------------------------- *)

Range(s) == {s[i] : i \in DOMAIN s}

RECURSIVE SeqSum(_)
SeqSum(s) == IF s = <<>> THEN 0 ELSE Head(s) + SeqSum(Tail(s))

RECURSIVE SeqMax(_)
SeqMax(s) ==
    IF Len(s) = 1 THEN Head(s)
    ELSE LET m == SeqMax(Tail(s)) IN IF Head(s) >= m THEN Head(s) ELSE m

\* all sequences over S of length at most n
RECURSIVE SeqsUpTo(_, _)
SeqsUpTo(S, n) ==
    IF n = 0 THEN {<<>>}
    ELSE LET shorter == SeqsUpTo(S, n - 1)
         IN  shorter \cup {Append(s, x) : s \in {t \in shorter : Len(t) = n - 1}, x \in S}

\* the permutations of 1..n, as sequences
Perms(n) == {p \in [1..n -> 1..n] : \A i, j \in 1..n : i # j => p[i] # p[j]}

\* round(num / den, 1) in tenths, ties to the even tenth (Python's round on
\* a value that the float holds exactly)
RoundHalfEven(num, den) ==
    LET q == (10 * num) \div den
        r == (10 * num) % den
    IN  IF 2 * r > den \/ (2 * r = den /\ q % 2 = 1) THEN q + 1 ELSE q

(* ------------------------------ queries ------------------------------- *)

\* learner_sql: SELECT id, full_name, grade FROM learners WHERE id = ?
LearnerSql(learner_id) == SelectSeq(learners, LAMBDA l : l.id = learner_id)

\* subjects_sql: the (id, name) rows of the subjects that grade_subjects
\* relates to the grade, and the subject_map built from them
SubjectMap(grade_val) ==
    LET ids == {s.id : s \in {t \in Range(subjects) :
                   [grade |-> grade_val, subject_id |-> t.id] \in grade_subjects}}
    IN  [i \in ids |-> (CHOOSE t \in Range(subjects) : t.id = i).name]

\* the join of one scores row with subjects (subjects.id is the primary key)
HasSubject(sc) == \E t \in Range(subjects) : t.id = sc.subject_id

Joined(sc) ==
    [subject_id |-> sc.subject_id,
     subject |-> (CHOOSE t \in Range(subjects) : t.id = sc.subject_id).name,
     exam_type |-> sc.exam_type, term |-> sc.term, score |-> sc.score]

\* (mutant) the exam_type filter is not appended to scores_sql
ScoresWhereAnyExam(sc, learner_id, term, exam_type) ==
    /\ sc.learner_id = learner_id
    /\ \E t \in Range(subjects) : t.id = sc.subject_id
    /\ Truthy(term) => sc.term = term

\* the WHERE clause of scores_sql: the learner's rows, narrowed by term and
\* by exam_type when the argument is truthy
ScoresWhere(sc, learner_id, term, exam_type) ==
    /\ sc.learner_id = learner_id
    /\ HasSubject(sc)
    /\ Truthy(term) => sc.term = term
    /\ Truthy(exam_type) => sc.exam_type = exam_type

SelectedScores(learner_id, term, exam_type) ==
    LET sel == SelectSeq(scores, LAMBDA sc : ScoresWhere(sc, learner_id, term, exam_type))
    IN  [i \in 1..Len(sel) |-> Joined(sel[i])]

\* ORDER BY <key>: any order of the rows in which the keys ascend (the order
\* of rows with equal keys is the store's choice); keys[i] is the rank of the
\* key of rows[i]
OrderBy(rows, keys) ==
    {[i \in 1..Len(rows) |-> rows[p[i]]] :
        p \in {q \in Perms(Len(rows)) :
                 \A i \in 1..(Len(rows) - 1) : keys[q[i]] <= keys[q[i + 1]]}}

\* (mutant) scores_sql without its ORDER BY: the rows in table order
OrderByNameDropped(rows) == {rows}

\* ORDER BY s.name
OrderByName(rows) == OrderBy(rows, [i \in 1..Len(rows) |-> StrRank(rows[i].subject)])

ScoresSql(learner_id, term, exam_type) ==
    OrderByName(SelectedScores(learner_id, term, exam_type))

\* class_avg_sql: AVG(score), MAX(score) over the scores rows of the subject,
\* of every learner, narrowed by the term and exam_type arguments; both
\* aggregates skip NULL scores and are NULL over no row.  class_average is
\* round(AVG, 1), in tenths; class_highest is round(MAX, 1) of an integer.
\* (mutant) the class statistics are not narrowed by the term argument
ClassAvgWhereAnyTerm(sc, subj_id, term, exam_type) ==
    /\ sc.subject_id = subj_id
    /\ Truthy(exam_type) => sc.exam_type = exam_type

ClassAvgWhere(sc, subj_id, term, exam_type) ==
    /\ sc.subject_id = subj_id
    /\ Truthy(term) => sc.term = term
    /\ Truthy(exam_type) => sc.exam_type = exam_type

ClassStats(subj_id, term, exam_type) ==
    LET rows == SelectSeq(scores, LAMBDA sc :
                    ClassAvgWhere(sc, subj_id, term, exam_type) /\ sc.score # NULL)
        vals == [i \in 1..Len(rows) |-> rows[i].score]
    IN  IF vals = <<>>
        THEN [subject_id |-> subj_id, class_average |-> NULL, class_highest |-> NULL]
        ELSE [subject_id |-> subj_id,
              class_average |-> RoundHalfEven(SeqSum(vals), Len(vals)),
              class_highest |-> SeqMax(vals)]

(* ------------------------- get_learner_by_id -------------------------- *)

TypeError == "TypeError"

\* (mutant) the bands open at their lower bound: > for >=
RemarksOpen(score) ==
    IF score = NULL THEN TypeError
    ELSE IF score > 80 THEN "exceeding expectations"
    ELSE IF score > 65 THEN "meeting expectations"
    ELSE IF score > 50 THEN "approaching expectations"
    ELSE "below expectations"

\* the remarks chain; `score >= 80` on None raises TypeError
Remarks(score) ==
    IF score = NULL THEN TypeError
    ELSE IF score >= 80 THEN "exceeding expectations"
    ELSE IF score >= 65 THEN "meeting expectations"
    ELSE IF score >= 50 THEN "approaching expectations"
    ELSE "below expectations"

\* the locals of the loop over the selected rows; class_stats keeps the
\* avg_row of every iteration that ran, the raising one included
LoopStart ==
    [raised |-> FALSE, marks |-> <<>>, class_stats |-> <<>>,
     total_score_obtained |-> 0, total_score_obtainable |-> 0]

RECURSIVE Loop(_, _, _, _)
Loop(rows, term, exam_type, acc) ==
    IF rows = <<>> THEN acc
    ELSE LET s == Head(rows)
             stats == ClassStats(s.subject_id, term, exam_type)
             remarks == Remarks(s.score)
             acc1 == [acc EXCEPT
                        !.total_score_obtained = @ + (IF s.score # NULL THEN s.score ELSE 0),
                        !.total_score_obtainable = @ + 100,
                        !.class_stats = Append(@, stats)]
             mark == [subject |-> s.subject, exam_type |-> s.exam_type, score |-> s.score,
                      class_average |-> stats.class_average, remarks |-> remarks,
                      class_highest |-> stats.class_highest]
         IN  IF remarks = TypeError THEN [acc1 EXCEPT !.raised = TRUE]
             ELSE Loop(Tail(rows), term, exam_type, [acc1 EXCEPT !.marks = Append(@, mark)])

\* (mutant) the percentage is cut to one decimal, not rounded
AveragePercentageCut(obtained, obtainable) ==
    IF obtainable = 0 THEN {0} ELSE {(1000 * obtained) \div obtainable}

\* round((obtained / obtainable) * 100, 1) in tenths, 0 when nothing is
\* obtainable.  The float product can fall on either side of an exact tie
\* (four marks or more), so a tie may round to either tenth.
AveragePercentage(obtained, obtainable) ==
    IF obtainable = 0 THEN {0}
    ELSE LET q == (1000 * obtained) \div obtainable
             r == (1000 * obtained) % obtainable
         IN  IF 2 * r = obtainable THEN {q, q + 1}
             ELSE IF 2 * r > obtainable THEN {q + 1} ELSE {q}

\* what get_learner_by_id returns (None, a report) or raises when the scores
\* query gave `rows`; grade_val and subject_map are locals the report does
\* not carry, kept here as they were computed
LearnerReport(learner_id, term, exam_type, grade, rows) ==
    LET found == LearnerSql(learner_id)
    IN  IF found = <<>> THEN {[kind |-> "None"]}
        ELSE LET learner == Head(found)
                 grade_val == IF Truthy(grade) THEN grade ELSE learner.grade
                 acc == Loop(rows, term, exam_type, LoopStart)
             IN  IF acc.raised
                 THEN {[kind |-> TypeError, class_stats |-> acc.class_stats]}
                 ELSE {[kind |-> "report",
                        id |-> learner.id, full_name |-> learner.full_name,
                        grade |-> learner.grade,
                        marks |-> acc.marks,
                        total_score_obtainable |-> acc.total_score_obtainable,
                        total_score_obtained |-> acc.total_score_obtained,
                        average_percentage |-> avg,
                        grade_val |-> grade_val, subject_map |-> SubjectMap(grade_val),
                        class_stats |-> acc.class_stats] :
                       avg \in AveragePercentage(acc.total_score_obtained,
                                                 acc.total_score_obtainable)}

\* the outcomes a call of get_learner_by_id can have
GetLearnerById(learner_id, term, exam_type, grade) ==
    UNION {LearnerReport(learner_id, term, exam_type, grade, rows) :
             rows \in ScoresSql(learner_id, term, exam_type)}

(* ------------------------ the other utilities ------------------------- *)

\* ORDER BY full_name
OrderByFullName(rows) == OrderBy(rows, [i \in 1..Len(rows) |-> StrRank(rows[i].full_name)])

\* get_all_learners: SELECT id, full_name, grade FROM learners ORDER BY full_name
GetAllLearners == OrderByFullName(learners)

\* AVG(score) over the learner's scores, as the exact fraction sum / n
\* (NULL over no non-null score)
AverageScore(learner_id) ==
    LET rows == SelectSeq(scores, LAMBDA sc : sc.learner_id = learner_id /\ sc.score # NULL)
    IN  IF rows = <<>> THEN <<NULL, NULL>>
        ELSE <<SeqSum([i \in 1..Len(rows) |-> rows[i].score]), Len(rows)>>

\* get_all_learners_with_reports
GetAllLearnersWithReports ==
    {[i \in 1..Len(ls) |->
        [id |-> ls[i].id, full_name |-> ls[i].full_name, grade |-> ls[i].grade,
         average_score |-> AverageScore(ls[i].id)]] : ls \in OrderByFullName(learners)}

\* the strings of a set in ascending order: SELECT DISTINCT x ... ORDER BY x
RECURSIVE SortedStrings(_)
SortedStrings(S) ==
    IF S = {} THEN <<>>
    ELSE LET m == CHOOSE x \in S : \A y \in S : StrRank(x) <= StrRank(y)
         IN  <<m>> \o SortedStrings(S \ {m})

\* get_all_grades: SELECT DISTINCT grade FROM learners ORDER BY grade
GetAllGrades == SortedStrings({l.grade : l \in Range(learners)})

\* marks_sql: the scores rows of the listed learners joined with subjects,
\* with no ORDER BY: the rows come in an order of the store's choice
MarksSql(learner_ids) ==
    LET sel == SelectSeq(scores, LAMBDA sc : sc.learner_id \in learner_ids /\ HasSubject(sc))
        rows == [i \in 1..Len(sel) |->
                    [learner_id |-> sel[i].learner_id, subject |-> Joined(sel[i]).subject,
                     score |-> sel[i].score]]
    IN  {[i \in 1..Len(rows) |-> rows[p[i]]] : p \in Perms(Len(rows))}

\* (mutant) the pivot keeps the first row of a learner and subject
PivotFirst(rows, lid) ==
    LET mine == SelectSeq(rows, LAMBDA r : r.learner_id = lid)
        names == {mine[i].subject : i \in 1..Len(mine)}
        First(n) == CHOOSE i \in 1..Len(mine) :
                       /\ mine[i].subject = n
                       /\ \A j \in 1..Len(mine) : mine[j].subject = n => i <= j
    IN  [n \in names |-> mine[First(n)].score]

\* the pivot: marks_by_learner.setdefault(lid, {})[subject] = score, row by
\* row, so a later row of the same learner and subject overwrites an earlier
Pivot(rows, lid) ==
    LET mine == SelectSeq(rows, LAMBDA r : r.learner_id = lid)
        names == {mine[i].subject : i \in 1..Len(mine)}
        Last(n) == CHOOSE i \in 1..Len(mine) :
                      /\ mine[i].subject = n
                      /\ \A j \in 1..Len(mine) : mine[j].subject = n => j <= i
    IN  [n \in names |-> mine[Last(n)].score]

\* (mutant) learners_sql without its ORDER BY: the rows in table order
LearnersSqlUnordered(grade) ==
    LET in_grade == SelectSeq(learners, LAMBDA l : l.grade = grade)
    IN  {[i \in 1..Len(in_grade) |->
            [id |-> in_grade[i].id, full_name |-> in_grade[i].full_name]]}

\* learners_sql: SELECT id, full_name FROM learners WHERE grade = ? ORDER BY full_name
LearnersSql(grade) ==
    LET in_grade == SelectSeq(learners, LAMBDA l : l.grade = grade)
    IN  OrderByFullName([i \in 1..Len(in_grade) |->
                            [id |-> in_grade[i].id, full_name |-> in_grade[i].full_name]])

\* get_broadsheet_data: the subject names, and the learners of the grade
\* with their pivoted marks (none, and no marks query, when the grade has no
\* learner); rows is the local of that name, the result of the marks query in
\* the order it came, which the returned dict does not carry
GetBroadsheetData(grade) ==
    LET subject_names == SortedStrings({t.name : t \in Range(subjects)})
    IN  UNION {IF ls = <<>>
               THEN {[kind |-> "broadsheet", subjects |-> subject_names, learners |-> <<>>,
                      rows |-> <<>>]}
               ELSE {[kind |-> "broadsheet", subjects |-> subject_names, rows |-> rows,
                      learners |-> [i \in 1..Len(ls) |->
                                     [id |-> ls[i].id, full_name |-> ls[i].full_name,
                                      marks |-> Pivot(rows, ls[i].id)]]] :
                       rows \in MarksSql({ls[i].id : i \in 1..Len(ls)})} :
               ls \in LearnersSql(grade)}

(* ---------------------------- connections ----------------------------- *)

\* get_conn: sqlite3.connect opens a connection
GetConn(cs) == Append(cs, "open")

\* leaving `with get_conn() as conn:`: the connection's __exit__ commits (or
\* rolls back when the block raised); neither changes whether it is open
WithExit(c) == c

\* one call of a utility: open a connection, run the block, leave the block
UseConn(cs) == LET opened == GetConn(cs)
               IN  [opened EXCEPT ![Len(opened)] = WithExit(@)]

(* ------------------------------- state -------------------------------- *)

NoCall == [op |-> "none"]
NoResult == [kind |-> "none"]
NoResponse == [status |-> 0]

\* The store.  Learners 1 (Zed) and 2 (Amy) are stored in G1, learner 3 (Bob)
\* in G2, in this order in the table; subjects 1 and 3 are both named Math;
\* G1 takes subjects 1 and 2, G2 takes English only.  scores.subject_id and
\* scores.learner_id refer to rows that exist.
InitWith(tables) ==
    /\ learners = <<[id |-> 1, full_name |-> "Zed", grade |-> "G1"],
                    [id |-> 2, full_name |-> "Amy", grade |-> "G1"],
                    [id |-> 3, full_name |-> "Bob", grade |-> "G2"]>>
    /\ subjects = <<[id |-> 1, name |-> "Math"], [id |-> 2, name |-> "English"],
                    [id |-> 3, name |-> "Math"]>>
    /\ grade_subjects = {[grade |-> "G1", subject_id |-> 1],
                         [grade |-> "G1", subject_id |-> 2],
                         [grade |-> "G2", subject_id |-> 2]}
    /\ scores \in tables
    /\ conns = <<>>
    /\ call = NoCall
    /\ result = NoResult
    /\ response = NoResponse

\* scores of one term and exam type, in both subjects, null or on a band edge
ScoreRows ==
    [learner_id : ScoredLearners, subject_id : SubjectIds, term : {"T1"},
     exam_type : {"Midterm"}, score : {NULL, 50, 80}]

Init == InitWith(SeqsUpTo(ScoreRows, MaxRows))

\* scores of one subject over the terms and exam types
FilterRows ==
    [learner_id : ScoredLearners, subject_id : {1}, term : Terms,
     exam_type : ExamTypes, score : {50, 80}]

InitFilters == InitWith(SeqsUpTo(FilterRows, MaxRows))

\* scores of one subject over the learners and terms, null or with means
\* that do not end on a tenth (49, 49, 80).  The rows are stored in one
\* order: AVG, MAX and the tie order of ORDER BY do not read the storage
\* order (Spec and SpecFilters take every storage order).
ClassRows ==
    [learner_id : ScoredLearners, subject_id : {1}, term : Terms,
     exam_type : {"Midterm"}, score : {NULL, 49, 80}]

RowRank(r) == (r.learner_id * 10 + StrRank(r.term)) * 1000 + r.score + 1

InitClass ==
    InitWith({s \in SeqsUpTo(ClassRows, MaxClassRows) :
                 \A i \in 1..(Len(s) - 1) : RowRank(s[i]) <= RowRank(s[i + 1])})

\* one score of learner 1, over the whole range of a score
BandRows ==
    [learner_id : {1}, subject_id : {1}, term : {"T1"}, exam_type : {"Midterm"},
     score : (0..100) \cup {NULL}]

InitBands == InitWith({<<r>> : r \in BandRows})

(* ------------------------------ actions ------------------------------- *)

LearnerCall(op, learner_id, term, exam_type, grade) ==
    [op |-> op, learner_id |-> learner_id, term |-> term, exam_type |-> exam_type,
     grade |-> grade]

\* a direct call of get_learner_by_id (as grade_reports_pdf or a test makes)
CallGetLearnerById(learner_id, term, exam_type, grade) ==
    /\ call = NoCall
    /\ Len(conns) < MaxConns
    /\ result' \in GetLearnerById(learner_id, term, exam_type, grade)
    /\ call' = LearnerCall("get_learner_by_id", learner_id, term, exam_type, grade)
    /\ conns' = UseConn(conns)
    /\ response' = NoResponse
    /\ UNCHANGED store

CallGetAllLearners ==
    /\ call = NoCall
    /\ Len(conns) < MaxConns
    /\ \E rows \in GetAllLearners : result' = [kind |-> "learners", rows |-> rows]
    /\ call' = [op |-> "get_all_learners"]
    /\ conns' = UseConn(conns)
    /\ response' = NoResponse
    /\ UNCHANGED store

CallGetAllLearnersWithReports ==
    /\ call = NoCall
    /\ Len(conns) < MaxConns
    /\ \E rows \in GetAllLearnersWithReports : result' = [kind |-> "learners", rows |-> rows]
    /\ call' = [op |-> "get_all_learners_with_reports"]
    /\ conns' = UseConn(conns)
    /\ response' = NoResponse
    /\ UNCHANGED store

CallGetAllGrades ==
    /\ call = NoCall
    /\ Len(conns) < MaxConns
    /\ result' = [kind |-> "grades", rows |-> GetAllGrades]
    /\ call' = [op |-> "get_all_grades"]
    /\ conns' = UseConn(conns)
    /\ response' = NoResponse
    /\ UNCHANGED store

CallGetBroadsheetData(grade) ==
    /\ call = NoCall
    /\ Len(conns) < MaxConns
    /\ result' \in GetBroadsheetData(grade)
    /\ call' = [op |-> "get_broadsheet_data", grade |-> grade]
    /\ conns' = UseConn(conns)
    /\ response' = NoResponse
    /\ UNCHANGED store

(* --------------------------- route handlers --------------------------- *)

\* abort(404), an unhandled exception (500), or the page that was rendered
\* for the learner
NotFound404 == [status |-> 404, body |-> "404.html", learner |-> NULL]
Error500 == [status |-> 500, body |-> "500.html", learner |-> NULL]

\* (mutant) the handler lost its `if not learner: abort(404)`
RespondNoAbort(r, ok) ==
    IF r.kind = TypeError THEN Error500 ELSE ok

Respond(r, ok) ==
    IF r.kind = "None" THEN NotFound404
    ELSE IF r.kind = TypeError THEN Error500
    ELSE ok

\* view_learner: get_learner_by_id with the request's filters, 404 when it
\* returned None, else get_all_grades (a second connection) and the page
ViewLearner(learner_id, term, exam_type, grade) ==
    /\ call = NoCall
    /\ \E r \in GetLearnerById(learner_id, term, exam_type, grade) :
        /\ result' = r
        /\ conns' = IF r.kind = "report" THEN UseConn(UseConn(conns)) ELSE UseConn(conns)
        /\ Len(conns') <= MaxConns
        /\ response' = Respond(r, [status |-> 200, body |-> "learner_report.html",
                                   learner |-> learner_id])
    /\ call' = LearnerCall("view_learner", learner_id, term, exam_type, grade)
    /\ UNCHANGED store

\* report_pdf: get_learner_by_id without filters, 404 when it returned None,
\* else the rendered page goes to pdfkit, which gives the PDF or raises (the
\* handler then redirects to view_learner)
ReportPdf(learner_id) ==
    /\ call = NoCall
    /\ Len(conns) < MaxConns
    /\ \E r \in GetLearnerById(learner_id, None, None, None), pdf_ok \in BOOLEAN :
        /\ result' = r
        /\ response' = Respond(r, IF pdf_ok
                                  THEN [status |-> 200, body |-> "pdf", learner |-> learner_id]
                                  ELSE [status |-> 302, body |-> "redirect",
                                        learner |-> learner_id])
    /\ call' = LearnerCall("report_pdf", learner_id, None, None, None)
    /\ conns' = UseConn(conns)
    /\ UNCHANGED store

\* export_learner_word: get_learner_by_id without filters, 404 when it
\* returned None, else the .docx built from the report
ExportLearnerWord(learner_id) ==
    /\ call = NoCall
    /\ Len(conns) < MaxConns
    /\ \E r \in GetLearnerById(learner_id, None, None, None) :
        /\ result' = r
        /\ response' = Respond(r, [status |-> 200, body |-> "docx", learner |-> learner_id])
    /\ call' = LearnerCall("export_learner_word", learner_id, None, None, None)
    /\ conns' = UseConn(conns)
    /\ UNCHANGED store

\* the request is answered and the server takes the next one: the handler's
\* locals are gone, the connections are as the handler left them
EndRequest ==
    /\ call # NoCall
    /\ call' = NoCall
    /\ result' = NoResult
    /\ response' = NoResponse
    /\ UNCHANGED <<store, conns>>

Next ==
    \/ \E id \in IdArgs, t \in TermArgs, e \in ExamArgs, g \in GradeArgs :
          CallGetLearnerById(id, t, e, g)
    \/ CallGetAllLearners
    \/ CallGetAllLearnersWithReports
    \/ CallGetAllGrades
    \/ \E g \in BroadsheetGrades : CallGetBroadsheetData(g)
    \/ \E id \in IdArgs, t \in TermArgs, e \in ExamArgs, g \in GradeArgs :
          ViewLearner(id, t, e, g)
    \/ \E id \in IdArgs : ReportPdf(id)
    \/ \E id \in IdArgs : ExportLearnerWord(id)
    \/ EndRequest

Spec == Init /\ [][Next]_vars
SpecFilters == InitFilters /\ [][Next]_vars
SpecClass == InitClass /\ [][Next]_vars
SpecBands == InitBands /\ [][Next]_vars

(* ------------------------------ claims -------------------------------- *)

\* what the claims speak of: the calls that went through get_learner_by_id,
\* a filter argument that was given, the learner row of the call, and the
\* scores rows (by position in the table) that the call's filters select
LearnerOps == {"get_learner_by_id", "view_learner", "report_pdf", "export_learner_word"}
RouteOps == {"view_learner", "report_pdf", "export_learner_word"}
IsLearnerCall == call.op \in LearnerOps
Returned == IsLearnerCall /\ result.kind = "report"
Provided(v) == v \notin {None, ""}
Exists(learner_id) == \E i \in DOMAIN learners : learners[i].id = learner_id
StoredGrade(learner_id) ==
    learners[CHOOSE i \in DOMAIN learners : learners[i].id = learner_id].grade
NameOf(subject_id) ==
    subjects[CHOOSE i \in DOMAIN subjects : subjects[i].id = subject_id].name
Selected ==
    {i \in DOMAIN scores :
        /\ scores[i].learner_id = call.learner_id
        /\ Provided(call.term) => scores[i].term = call.term
        /\ Provided(call.exam_type) => scores[i].exam_type = call.exam_type}
MarkSubjects == {result.marks[i].subject : i \in DOMAIN result.marks}

\* C1: the subjects of a report's marks are those of the grade-subject
\* membership of the effective grade (the grade argument when given, else the
\* learner's stored grade), whatever score rows exist.
C1_SubjectsFollowMembership ==
    Returned =>
        LET effective == IF Provided(call.grade) THEN call.grade
                         ELSE StoredGrade(call.learner_id)
        IN  MarkSubjects =
              {subjects[i].name : i \in {j \in DOMAIN subjects :
                  [grade |-> effective, subject_id |-> subjects[j].id] \in grade_subjects}}

\* C2: no connection opened by a finished call is still open.
C2_ConnectionsClosed == \A i \in DOMAIN conns : conns[i] = "closed"

\* C3: a call whose selected rows include a null score still returns a
\* report, and the mark of the null score has no remarks band.
C3_NullScoreReported ==
    (IsLearnerCall /\ Exists(call.learner_id)
       /\ \E i \in Selected : scores[i].score = NULL)
    => /\ result.kind = "report"
       /\ \A i \in DOMAIN result.marks :
             result.marks[i].score = NULL => result.marks[i].remarks = None

\* C4: get_learner_by_id returns None exactly when no learner row has the
\* id, whatever the filters; the three routes answer 404 exactly then and
\* render a page only for a learner that exists.
C4_NotFound ==
    IsLearnerCall =>
        /\ result.kind = "None" <=> ~Exists(call.learner_id)
        /\ call.op \in RouteOps =>
              /\ response.status = 404 <=> ~Exists(call.learner_id)
              /\ response.learner # NULL =>
                    Exists(call.learner_id) /\ response.learner = call.learner_id

C4_Witness ==
    /\ call.op = "view_learner"
    /\ call.learner_id = 4
    /\ call.term = "T2" /\ call.exam_type = "Midterm" /\ call.grade = "G2"
    /\ result.kind = "None"
    /\ response = NotFound404

Abs(x) == IF x < 0 THEN -x ELSE x

RECURSIVE ScoreSum(_)
ScoreSum(I) ==
    IF I = {} THEN 0
    ELSE LET i == CHOOSE k \in I : TRUE IN scores[i].score + ScoreSum(I \ {i})

\* C5: in a report, total_score_obtainable is 100 for each mark,
\* total_score_obtained is the sum of the marks' scores, and
\* average_percentage is 0 when nothing is obtainable, else
\* obtained / obtainable * 100 to the nearest tenth.
C5_AveragePercentage ==
    Returned =>
        LET n == Len(result.marks)
            obtained == SeqSum([i \in 1..n |-> result.marks[i].score])
            avg == result.average_percentage
        IN  /\ result.total_score_obtainable = 100 * n
            /\ result.total_score_obtained = obtained
            /\ n = 0 => avg = 0
            /\ n > 0 => 2 * Abs(avg * 100 * n - 1000 * obtained) <= 100 * n

\* 49 + 80 + 80 of 300 is 69.666..., reported as 69.7
C5_Witness ==
    /\ Returned
    /\ Len(result.marks) = 3
    /\ result.total_score_obtained = 209
    /\ result.total_score_obtainable = 300
    /\ result.average_percentage = 697

\* C6: the remarks of a mark with a score in 0..100 is the band of the
\* score, the bands closed at 80, 65 and 50.
C6_RemarksBands ==
    Returned =>
        \A i \in DOMAIN result.marks :
            LET sc == result.marks[i].score
                r == result.marks[i].remarks
            IN  sc \in 0..100 =>
                  \/ sc >= 80 /\ r = "exceeding expectations"
                  \/ sc >= 65 /\ sc < 80 /\ r = "meeting expectations"
                  \/ sc >= 50 /\ sc < 65 /\ r = "approaching expectations"
                  \/ sc < 50 /\ r = "below expectations"

C6_Witness ==
    /\ Returned
    /\ \E i \in DOMAIN result.marks :
          result.marks[i].score = 65 /\ result.marks[i].remarks = "meeting expectations"

\* the non-null scores of a subject, of every learner, that match the
\* filters given to the call
Qualifying(subject_id) ==
    {i \in DOMAIN scores :
        /\ scores[i].subject_id = subject_id
        /\ Provided(call.term) => scores[i].term = call.term
        /\ Provided(call.exam_type) => scores[i].exam_type = call.exam_type
        /\ scores[i].score # NULL}

\* the class statistics of every iteration of the loop that ran belong to a
\* mark of the report, in order
StatsOfMarks ==
    Returned =>
        /\ Len(result.class_stats) = Len(result.marks)
        /\ \A k \in DOMAIN result.marks :
              /\ result.marks[k].subject = NameOf(result.class_stats[k].subject_id)
              /\ result.marks[k].class_average = result.class_stats[k].class_average
              /\ result.marks[k].class_highest = result.class_stats[k].class_highest

ClassHighestIsMax(st, Q) ==
    /\ \E i \in Q : scores[i].score = st.class_highest
    /\ \A i \in Q : scores[i].score <= st.class_highest

C8_MarksAreSelectedRows ==
    (IsLearnerCall /\ Exists(call.learner_id)) =>
        /\ Selected = {} => result.kind = "report" /\ result.marks = <<>>
        /\ result.kind = "report" =>
              \E f \in [DOMAIN result.marks -> Selected] :
                  /\ \A i \in Selected : \E k \in DOMAIN result.marks : f[k] = i
                  /\ \A k, l \in DOMAIN result.marks : f[k] = f[l] => k = l
                  /\ \A k \in DOMAIN result.marks :
                        /\ result.marks[k].subject = NameOf(scores[f[k]].subject_id)
                        /\ result.marks[k].exam_type = scores[f[k]].exam_type
                        /\ result.marks[k].score = scores[f[k]].score

\* no filter given: two rows of one subject, of two exam types, are two marks
C8_Witness ==
    /\ Returned
    /\ ~Provided(call.term) /\ ~Provided(call.exam_type)
    /\ Len(result.marks) = 2
    /\ result.marks[1].subject = result.marks[2].subject
    /\ result.marks[1].exam_type # result.marks[2].exam_type

\* C9: the marks of a report ascend by subject name.
C9_MarksAscending ==
    Returned =>
        \A i, j \in DOMAIN result.marks :
            i < j => StrRank(result.marks[i].subject) <= StrRank(result.marks[j].subject)

\* the learner's Math row is stored before its English row
C9_Witness ==
    /\ Returned
    /\ Len(scores) = 2
    /\ scores[1].learner_id = call.learner_id /\ scores[1].subject_id = 1
    /\ scores[2].learner_id = call.learner_id /\ scores[2].subject_id = 2
    /\ Len(result.marks) = 2
    /\ result.marks[1].subject = "English" /\ result.marks[2].subject = "Math"

\* C10: get_broadsheet_data returns a broadsheet for every grade; for a grade
\* with no learner it holds every subject name of the store once and no
\* learner; else its learners are the learners stored in the grade, each
\* once, ascending by full name.
C10_Broadsheet ==
    call.op = "get_broadsheet_data" =>
        LET in_grade == {i \in DOMAIN learners : learners[i].grade = call.grade}
        IN  /\ result.kind = "broadsheet"
            /\ in_grade = {} =>
                  /\ result.learners = <<>>
                  /\ {result.subjects[k] : k \in DOMAIN result.subjects}
                        = {subjects[i].name : i \in DOMAIN subjects}
                  /\ \A k, l \in DOMAIN result.subjects :
                        result.subjects[k] = result.subjects[l] => k = l
            /\ Len(result.learners) = Cardinality(in_grade)
            /\ \A i \in in_grade : \E k \in DOMAIN result.learners :
                  /\ result.learners[k].id = learners[i].id
                  /\ result.learners[k].full_name = learners[i].full_name
            /\ \A k, l \in DOMAIN result.learners :
                  k < l => StrRank(result.learners[k].full_name)
                             <= StrRank(result.learners[l].full_name)

C10_Witness ==
    /\ call.op = "get_broadsheet_data"
    /\ call.grade = "G3"
    /\ result.kind = "broadsheet"
    /\ result.learners = <<>>
    /\ result.subjects = <<"English", "Math">>

\* C11: in a broadsheet, a learner's marks have a key for exactly the subject
\* names in which the learner has a score row (of any term or exam type),
\* and the value of a key is the score of the last row of that learner and
\* subject in the order the marks query returned its rows.
C11_PivotLastRowWins ==
    (call.op = "get_broadsheet_data" /\ result.kind = "broadsheet") =>
        \A k \in DOMAIN result.learners :
            LET l == result.learners[k]
                rows == result.rows
            IN  /\ DOMAIN l.marks =
                     {NameOf(scores[i].subject_id) :
                        i \in {j \in DOMAIN scores : scores[j].learner_id = l.id}}
                /\ \A n \in DOMAIN l.marks :
                      \E i \in DOMAIN rows :
                          /\ rows[i].learner_id = l.id /\ rows[i].subject = n
                          /\ l.marks[n] = rows[i].score
                          /\ \A j \in DOMAIN rows :
                                (rows[j].learner_id = l.id /\ rows[j].subject = n) => j <= i

\* learner 1 has two Math rows, stored 80 then 50 and returned 50 then 80:
\* Math maps to 80 and English is no key; Amy, without rows, has no key
C11_Witness ==
    /\ call.op = "get_broadsheet_data" /\ call.grade = "G1"
    /\ Len(scores) = 2
    /\ scores[1].learner_id = 1 /\ scores[1].subject_id = 1 /\ scores[1].score = 80
    /\ scores[2].learner_id = 1 /\ scores[2].subject_id = 1 /\ scores[2].score = 50
    /\ result.rows[1].score = 50 /\ result.rows[2].score = 80
    /\ Len(result.learners) = 2
    /\ DOMAIN result.learners[1].marks = {}
    /\ DOMAIN result.learners[2].marks = {"Math"}
    /\ result.learners[2].marks["Math"] = 80

====
